---- MODULE Spec2Model ----
(***************************************************************************)
(* A model of the image localization core of class IP                      *)
(* (src/ImageProccessing.h): the correlation matcher findImageInImage, the *)
(* two findImageInImageORB forms and the keyphrase parser                  *)
(* getRoiFromKeyphrase.                                                    *)
(*                                                                         *)
(* Numbers.  A double is modelled as an exact rational <<n, d>> with d > 0. *)
(* Every scale and fraction the model draws is dyadic or divides its        *)
(* operands exactly, so the products and quotients the code computes in    *)
(* double precision give the same integers under static_cast<int> as the   *)
(* rational arithmetic below.  Correlation scores are compared exactly.    *)
(***************************************************************************)
EXTENDS Integers, Sequences, FiniteSets, TLC

VARIABLES
    tm,     \* the last findImageInImage call: its arguments and its outcome
    orb,    \* the frame of the findImageInImageORB call in progress
    roi,    \* the last getRoiFromKeyphrase call: its arguments and its outcome
    asp,    \* the last isAspectRatioClose call: its arguments and its outcome
    kp      \* the last computeKeypointsAndDescriptors call: the image and the budget

vars == <<tm, orb, roi, asp, kp>>

\* ------------------------------------------------------------------ bounds
\* Largest pixel count (cols * rows) of a haystack image drawn for the
\* correlation matcher.
MaxArea == 5

\* ------------------------------------------------------- integer helpers
Abs(a) == IF a < 0 THEN -a ELSE a

Sign(a) == IF a < 0 THEN -1 ELSE IF a > 0 THEN 1 ELSE 0

\* C++ integer division and double -> int conversion: truncation toward 0
\* of a / b, b > 0.
TruncDiv(a, b) == IF a >= 0 THEN a \div b ELSE -((-a) \div b)

\* cvRound / saturate_cast<int>(double): round to nearest, ties to even, of
\* a / b with b > 0.
cvRound(a, b) ==
    LET q == a \div b
        r == a % b
    IN  IF 2 * r < b THEN q
        ELSE IF 2 * r > b THEN q + 1
        ELSE IF q % 2 = 0 THEN q ELSE q + 1

\* ----------------------------------------------------------------- images
\* Pixel intensities: with three levels a patch can be a brighter or a
\* contrast-stretched version of the needle without being a copy of it.
Pixels == {0, 1, 2}

\* A cv::Mat: cols, rows and the samples in row-major order.
Mat(c, r) == [cols : {c}, rows : {r}, pix : [1..(c * r) -> Pixels]]

At(img, x, y) == img.pix[y * img.cols + x + 1]

\* The sub-image img(Rect(x, y, w, h)).
Crop(img, x, y, w, h) ==
    [cols |-> w, rows |-> h,
     pix |-> [i \in 1..(w * h) |-> At(img, x + ((i - 1) % w), y + ((i - 1) \div w))]]

Rect(x, y, w, h) == [x |-> x, y |-> y, width |-> w, height |-> h]

\* The outcome of a call: a returned Rect or a thrown exception, with the
\* OpenCV calls made before it, in order.
Returned(r, calls) == [kind |-> "rect", rect |-> r, calls |-> calls]

Thrown(what, calls) == [kind |-> "throw", what |-> what, calls |-> calls]

\* ------------------------------------------------- the correlation matcher
\* A guard that forgets the upper end of the range.
ScaleOutOfRange_NoUpperBound(scale) == scale[1] <= 0

\* The guard of lines 41 and 83: scale <= 0.0 || scale > 1.0.
ScaleOutOfRange(scale) == scale[1] <= 0 \/ scale[1] > scale[2]

\* cv::resize(src, dst, Size(), scale, scale): each dimension becomes
\* cvRound(dim * scale).
ResizedDim(dim, scale) == cvRound(dim * scale[1], scale[2])

\* TM_CCOEFF_NORMED of the template against the patch of the image at
\* (x, y), as the signed square of the coefficient: <<num, den>> stands for
\* sign(N) * N^2 / den.  As in matchTemplate, a constant template scores 1
\* at every offset and a constant patch scores 0.
CCoeffNormed(image, templ, x, y) ==
    LET n  == templ.cols * templ.rows
        P  == Crop(image, x, y, templ.cols, templ.rows)
        RECURSIVE Sum(_, _)
        Sum(f, i) == IF i = 0 THEN 0 ELSE f[i] + Sum(f, i - 1)
        sT  == Sum(templ.pix, n)
        sP  == Sum(P.pix, n)
        sTT == Sum([i \in 1..n |-> templ.pix[i] * templ.pix[i]], n)
        sPP == Sum([i \in 1..n |-> P.pix[i] * P.pix[i]], n)
        sTP == Sum([i \in 1..n |-> templ.pix[i] * P.pix[i]], n)
        N   == n * sTP - sT * sP
        varT == n * sTT - sT * sT
        varP == n * sPP - sP * sP
    IN  IF varT = 0 THEN <<1, 1>>
        ELSE IF varP = 0 THEN <<0, 1>>
        ELSE <<Sign(N) * N * N, varT * varP>>

ScoreLess(a, b) == a[1] * b[2] < b[1] * a[2]

\* The offsets matchTemplate scores, in the row-major order minMaxLoc scans.
Offsets(image, templ) ==
    LET nx == image.cols - templ.cols + 1
        ny == image.rows - templ.rows + 1
    IN  [i \in 1..(nx * ny) |-> <<(i - 1) % nx, (i - 1) \div nx>>]

\* A scan that keeps the last of several equal maxima.
MaxLoc_LastMaximum(image, templ) ==
    LET offs == Offsets(image, templ)
        score(i) == CCoeffNormed(image, templ, offs[i][1], offs[i][2])
        best == CHOOSE i \in 1..Len(offs) :
                    /\ \A j \in 1..Len(offs) : ~ScoreLess(score(i), score(j))
                    /\ \A j \in (i + 1)..Len(offs) : ScoreLess(score(j), score(i))
    IN  offs[best]

\* cv::matchTemplate followed by cv::minMaxLoc: the first offset, in scan
\* order, whose score no other offset exceeds.
MaxLoc(image, templ) ==
    LET offs == Offsets(image, templ)
        score(i) == CCoeffNormed(image, templ, offs[i][1], offs[i][2])
        best == CHOOSE i \in 1..Len(offs) :
                    /\ \A j \in 1..Len(offs) : ~ScoreLess(score(i), score(j))
                    /\ \A j \in 1..(i - 1) : ScoreLess(score(j), score(i))
    IN  offs[best]

\* Lines 70-76: the matched rectangle divided by scale, each field truncated
\* to int, then x and y shifted at the far edge.
RescaleAndClamp(maxLoc, sCols, sRows, scale, lCols, lRows) ==
    LET x0     == TruncDiv(maxLoc[1] * scale[2], scale[1])
        y0     == TruncDiv(maxLoc[2] * scale[2], scale[1])
        width  == TruncDiv(sCols * scale[2], scale[1])
        height == TruncDiv(sRows * scale[2], scale[1])
        x == IF x0 < 0 THEN 0 ELSE IF x0 + width > lCols THEN lCols - width ELSE x0
        y == IF y0 < 0 THEN 0 ELSE IF y0 + height > lRows THEN lRows - height ELSE y0
    IN  Rect(x, y, width, height)

\* findImageInImage: the set of outcomes of one call.  At scale 1 the images
\* are used as they are and the best offset is computed from the pixels.  At
\* a smaller scale the interpolated pixels of the resized copies are not
\* modelled: the best offset is any offset matchTemplate can report on
\* images of the resized sizes.  cv::resize to an empty size fails inside
\* OpenCV.
findImageInImage(largeImage, smallImage, scale) ==
    IF ScaleOutOfRange(scale) THEN {Thrown("invalid_argument", <<>>)}
    ELSE IF scale[1] = scale[2]
    THEN {Returned(RescaleAndClamp(MaxLoc(largeImage, smallImage),
                                   smallImage.cols, smallImage.rows, scale,
                                   largeImage.cols, largeImage.rows),
                   <<"matchTemplate", "minMaxLoc">>)}
    ELSE LET lc == ResizedDim(largeImage.cols, scale)
             lr == ResizedDim(largeImage.rows, scale)
             sc == ResizedDim(smallImage.cols, scale)
             sr == ResizedDim(smallImage.rows, scale)
         IN  IF lc = 0 \/ lr = 0 \/ sc = 0 \/ sr = 0
             THEN {Thrown("cv::Exception", <<"resize">>)}
             ELSE {Returned(RescaleAndClamp(<<mx, my>>, sc, sr, scale,
                                            largeImage.cols, largeImage.rows),
                            <<"resize", "matchTemplate", "minMaxLoc">>) :
                       mx \in 0..(lc - sc), my \in 0..(lr - sr)}

\* ------------------------------------------------------ the feature matcher
\* Largest number of descriptors of an image, and so of cross-checked
\* matches, drawn for the feature matcher.
MaxMatches == 4

\* Largest magnitude of a field of the bounding rectangle of the projected
\* corners.
MaxRect == 3

ZeroRect == Rect(0, 0, 0, 0)

\* std::clamp(v, lo, hi).
Clamp(v, lo, hi) == IF v < lo THEN lo ELSE IF hi < v THEN hi ELSE v

\* A clamp of the score from above only.
ClampScore_NoLowerBound(minMatchScore) ==
    IF 256 < minMatchScore THEN 256 ELSE minMatchScore

\* Lines 87 and 190.
ClampScore(minMatchScore) == Clamp(minMatchScore, 0, 256)

\* Lines 129-132 and 206-209: the smallest distance of a non-empty match list.
MinDistance(matches) ==
    CHOOSE d \in {matches[i] : i \in 1..Len(matches)} :
        \A j \in 1..Len(matches) : d <= matches[j]

\* Lines 134 and 211: minMatchScore / 256.0f * 256.0f is minMatchScore.
MaxAcceptableDistance(matches, minMatchScore) == MinDistance(matches) + minMatchScore

\* Lines 135-139 and 212-216: std::copy_if of the matches within the band.
GoodMatches(matches, minMatchScore) ==
    SelectSeq(matches, LAMBDA d : d <= MaxAcceptableDistance(matches, minMatchScore))

\* A count check that lets three good matches through.
TooFewGoodMatches_FewerThanThree(goodMatches) == Len(goodMatches) < 3

\* Lines 150 and 226.
TooFewGoodMatches(goodMatches) == Len(goodMatches) < 4

\* An aspect test that compares the upright ratio only.
isAspectRatioClose_UprightOnly(rect, smallImage, tolerance) ==
    /\ rect.height # 0
    /\ smallImage.rows # 0
    /\ Abs(rect.width * smallImage.rows - smallImage.cols * rect.height) * tolerance[2]
           <= tolerance[1] * Abs(rect.height) * Abs(smallImage.rows)

\* Lines 657-664, in exact arithmetic: a quotient by zero is an infinity or a
\* NaN in the code and compares false.
RatioWithin(a, b, c, r, tol) ==
    /\ b # 0
    /\ r # 0
    /\ Abs(a * r - c * b) * tol[2] <= tol[1] * Abs(b) * Abs(r)

isAspectRatioClose(rect, smallImage, tolerance) ==
    \/ RatioWithin(rect.width, rect.height, smallImage.cols, smallImage.rows, tolerance)
    \/ RatioWithin(rect.height, rect.width, smallImage.cols, smallImage.rows, tolerance)

\* The tolerance 0.2 of lines 179 and 262.
AspectTolerance == <<1, 5>>

\* cv::boundingRect of float points spanning [min / d, min / d + extent]
\* along one axis, min >= 0: the origin is floor(min / d) and the size is
\* floor(max) - floor(min) + 1.
BoundingOrigin(min, d) == min \div d

BoundingSize(min, d, extent) == ((min + extent * d) \div d) - (min \div d) + 1

\* Lines 168-178 and 244-254 under a homography that is the translation by
\* (x0, y0) * scale: the corners (0, 0) .. (cols, rows) of the matched needle
\* image land on (x0, y0) * scale .. (x0, y0) * scale + (cols, rows).
ExactBoundingRect(smallCopy, scale, x0, y0) ==
    Rect(BoundingOrigin(x0 * scale[1], scale[2]),
         BoundingOrigin(y0 * scale[1], scale[2]),
         BoundingSize(x0 * scale[1], scale[2], smallCopy.cols),
         BoundingSize(y0 * scale[1], scale[2], smallCopy.rows))

\* Lines 179-182: the extract-internally form's validation of the bounding
\* rectangle.
ValidateExtract(boundingRect, smallImage) ==
    IF ~isAspectRatioClose(boundingRect, smallImage, AspectTolerance)
    THEN ZeroRect
    ELSE boundingRect

\* Lines 256-265: the precomputed-descriptor form's validation.
ValidatePrecomputed(boundingRect, largeImage, smallImage) ==
    IF \/ boundingRect.width <= 0
       \/ boundingRect.height <= 0
       \/ boundingRect.x < 0
       \/ boundingRect.y < 0
       \/ boundingRect.x + boundingRect.width > largeImage.cols
       \/ boundingRect.y + boundingRect.height > largeImage.rows
    THEN ZeroRect
    ELSE IF ~isAspectRatioClose(boundingRect, smallImage, AspectTolerance)
    THEN ZeroRect
    ELSE boundingRect

\* --------------------------------------------------- the keypoint budget
\* std::numeric_limits<int>::max() of a 32-bit int (line 271).
INT_MAX == 2147483647

\* The least budget of line 271.
MinKeypoints == 500

\* The product of two non-negative ints as a 32-bit two's complement
\* multiplication leaves it (line 270), computed from 8- and 16-bit limbs so
\* that no intermediate value leaves the 32-bit range.
Mul32(a, b) ==
    LET a1  == a \div 65536
        a0  == a % 65536
        b1  == b \div 65536
        b0  == b % 65536
        a01 == a0 \div 256
        a00 == a0 % 256
        b01 == b0 \div 256
        b00 == b0 % 256
        mid == a01 * b00 + a00 * b01
        p0  == a00 * b00 + (mid % 256) * 256
        lo  == p0 % 65536
        hi  == ((p0 \div 65536) + (mid \div 256) + a01 * b01
                 + ((a1 * b0) % 65536) + ((a0 * b1) % 65536)) % 65536
    IN  IF hi >= 32768 THEN (hi - 65536) * 65536 + lo ELSE hi * 65536 + lo

\* Whether cols * rows exceeds INT_MAX, for non-negative cols and rows.
Overflows(cols, rows) == cols > 0 /\ rows > INT_MAX \div cols

\* Line 270: int imageArea = image.cols * image.rows, where the build wraps
\* an overflowing product.
ImageArea(image) ==
    IF Overflows(image.cols, image.rows)
    THEN Mul32(image.cols, image.rows)
    ELSE image.cols * image.rows

\* Line 271: std::clamp(static_cast<int>(imageArea * 0.005), 500, INT_MAX).
\* The double 0.005 exceeds 1/200 by less than half an ulp, so the truncated
\* product is the truncated quotient imageArea / 200.
KeypointLimit(imageArea) == Clamp(TruncDiv(imageArea, 200), MinKeypoints, INT_MAX)

\* ------------------------------------------------------ the keyphrase parser
\* Largest number of whitespace-separated tokens of a keyphrase.
MaxTokens == 4

\* A std::string is a sequence of characters.
DigitValue == [c \in {"0", "1", "2", "3", "4", "5", "6", "7", "8", "9"} |->
                 CASE c = "0" -> 0 [] c = "1" -> 1 [] c = "2" -> 2 [] c = "3" -> 3
                   [] c = "4" -> 4 [] c = "5" -> 5 [] c = "6" -> 6 [] c = "7" -> 7
                   [] c = "8" -> 8 [] c = "9" -> 9]

IsDigit(c) == c \in DOMAIN DigitValue

\* The index after the longest run of digits of str starting at i.
RECURSIVE DigitsEnd(_, _)
DigitsEnd(str, i) ==
    IF i <= Len(str) /\ IsDigit(str[i]) THEN DigitsEnd(str, i + 1) ELSE i

\* The decimal value of the digits str[i..j-1].
RECURSIVE DigitsValue(_, _, _)
DigitsValue(str, i, j) ==
    IF j <= i THEN 0 ELSE 10 * DigitsValue(str, i, j - 1) + DigitValue[str[j - 1]]

RECURSIVE Pow10(_)
Pow10(k) == IF k = 0 THEN 1 ELSE 10 * Pow10(k - 1)

\* std::stod on a token: an optional sign, digits, an optional point and
\* digits; the longest such prefix is converted and the rest ignored; with no
\* digit at all it throws std::invalid_argument (ok = FALSE).  Exponents,
\* hexadecimal literals, "inf" and "nan" are not drawn by the model.
stod(str) ==
    LET signed == Len(str) >= 1 /\ str[1] \in {"-", "+"}
        i0 == IF signed THEN 2 ELSE 1
        i1 == DigitsEnd(str, i0)
        point == i1 <= Len(str) /\ str[i1] = "."
        f0 == IF point THEN i1 + 1 ELSE i1
        f1 == DigitsEnd(str, f0)
        n  == DigitsValue(str, i0, i1) * Pow10(f1 - f0) + DigitsValue(str, f0, f1)
    IN  IF i1 = i0 /\ f1 = f0
        THEN [ok |-> FALSE, val |-> <<0, 1>>]
        ELSE [ok |-> TRUE,
              val |-> <<IF signed /\ str[1] = "-" THEN -n ELSE n, Pow10(f1 - f0)>>]

\* str.find('/'): the first index of '/', or 0 for npos.
RECURSIVE FindSlash(_, _)
FindSlash(str, i) ==
    IF i > Len(str) THEN 0 ELSE IF str[i] = "/" THEN i ELSE FindSlash(str, i + 1)

\* A parse that never looks for the '/'.
parseFraction_IgnoresSlash(fractionStr) == stod(fractionStr)

\* Lines 592-600: the lambda parseFraction.  A quotient by zero is not
\* finite: the model draws no token with a zero denominator.
parseFraction(fractionStr) ==
    LET pos == FindSlash(fractionStr, 1)
    IN  IF pos # 0
        THEN LET numerator   == stod(SubSeq(fractionStr, 1, pos - 1))
                 denominator == stod(SubSeq(fractionStr, pos + 1, Len(fractionStr)))
                 n == numerator.val[1] * denominator.val[2]
                 d == numerator.val[2] * denominator.val[1]
             IN  IF ~numerator.ok \/ ~denominator.ok
                 THEN [ok |-> FALSE, val |-> <<0, 1>>]
                 ELSE [ok |-> TRUE, val |-> IF d < 0 THEN <<-n, -d>> ELSE <<n, d>>]
        ELSE stod(fractionStr)

\* int n = dim * fraction: the product truncated toward zero.
Scaled(dim, fraction) == TruncDiv(dim * fraction[1], fraction[2])

LEFT == <<"l", "e", "f", "t">>

RIGHT == <<"r", "i", "g", "h", "t">>

TOP == <<"t", "o", "p">>

BOTTOM == <<"b", "o", "t", "t", "o", "m">>

CENTER == <<"c", "e", "n", "t", "e", "r">>

DEFAULT == <<"d", "e", "f", "a", "u", "l", "t">>

\* A loop body that scales the current rect's width and height instead of
\* the image's.
ApplyDirection_FromCurrentRect(r, direction, fraction, imageSize) ==
    LET width  == imageSize.width
        height == imageSize.height
        newWidth  == Scaled(r.width, fraction)
        newHeight == Scaled(r.height, fraction)
    IN  CASE direction = RIGHT ->
               Rect(width - newWidth, r.y, newWidth, r.height)
          [] direction = LEFT ->
               Rect(r.x, r.y, newWidth, r.height)
          [] direction = BOTTOM ->
               Rect(r.x, height - newHeight, r.width, newHeight)
          [] direction = TOP ->
               Rect(r.x, r.y, r.width, newHeight)
          [] direction = CENTER ->
               Rect(TruncDiv(width - newWidth, 2), TruncDiv(height - newHeight, 2),
                    newWidth, newHeight)

\* Lines 614-641: one known direction applied to the current rect.
ApplyDirection(r, direction, fraction, imageSize) ==
    LET width  == imageSize.width
        height == imageSize.height
        newWidth  == Scaled(width, fraction)
        newHeight == Scaled(height, fraction)
    IN  CASE direction = RIGHT ->
               Rect(width - newWidth, r.y, newWidth, r.height)
          [] direction = LEFT ->
               Rect(r.x, r.y, newWidth, r.height)
          [] direction = BOTTOM ->
               Rect(r.x, height - newHeight, r.width, newHeight)
          [] direction = TOP ->
               Rect(r.x, r.y, r.width, newHeight)
          [] direction = CENTER ->
               Rect(TruncDiv(width - newWidth, 2), TruncDiv(height - newHeight, 2),
                    newWidth, newHeight)

KnownDirection(direction) == direction \in {RIGHT, LEFT, BOTTOM, TOP, CENTER}

\* Lines 648-651: the final clamp.
ClampRoi(r, imageSize) ==
    LET x == IF r.x > 0 THEN r.x ELSE 0
        y == IF r.y > 0 THEN r.y ELSE 0
        w == IF r.width < imageSize.width - x THEN r.width ELSE imageSize.width - x
        h == IF r.height < imageSize.height - y THEN r.height ELSE imageSize.height - y
    IN  Rect(x, y, w, h)

\* Lines 612-653: while (ss >> direction >> fractionStr), from token i on.
\* The fraction is parsed before the direction is looked at; a token left
\* without a partner ends the loop.
RECURSIVE RoiLoop(_, _, _, _)
RoiLoop(tokens, i, r, imageSize) ==
    IF i + 1 > Len(tokens)
    THEN Returned(ClampRoi(r, imageSize), <<>>)
    ELSE LET direction == tokens[i]
             fraction  == parseFraction(tokens[i + 1])
         IN  IF ~fraction.ok THEN Thrown("invalid_argument", <<>>)
             ELSE IF ~KnownDirection(direction)
             THEN Returned(Rect(0, 0, imageSize.width, imageSize.height), <<>>)
             ELSE RoiLoop(tokens, i + 2,
                          ApplyDirection(r, direction, fraction.val, imageSize),
                          imageSize)

\* Lines 590-654.  The keyphrase is given by its whitespace-separated tokens;
\* the phrase "default" is the single token DEFAULT.
getRoiFromKeyphrase(tokens, imageSize) ==
    IF tokens = <<DEFAULT>>
    THEN Returned(Rect(0, 0, imageSize.width, imageSize.height), <<>>)
    ELSE RoiLoop(tokens, 1, Rect(0, 0, imageSize.width, imageSize.height), imageSize)

\* ----------------------------------------------------------------- inputs
\* Scales, in and out of (0, 1].
Scales == {<<-1, 2>>, <<0, 1>>, <<5, 16>>, <<1, 2>>, <<1, 1>>, <<2, 1>>}

Idle == [op |-> "idle"]

Init ==
    /\ tm = Idle
    /\ orb = Idle
    /\ roi = Idle
    /\ asp = Idle
    /\ kp = Idle

\* Image sizes [cols, rows] for the feature matcher, whose model does not
\* read the pixels: the features of an image are what OpenCV reports.
Size(c, r) == [cols |-> c, rows |-> r]

OrbLargeImages == {Size(3, 6), Size(6, 3), Size(12, 3)}

OrbSmallImages == {Size(2, 2), Size(1, 6)}

OrbScales == {<<0, 1>>, <<1, 2>>, <<1, 1>>, <<2, 1>>}

\* minMatchScore arguments, in and out of [0, 256].
Scores == {-3, 0, 1, 255, 256, 300}

\* Hamming distances of 256-bit descriptors.
Distances == {0, 1, 256}

SeqsUpTo(S, n) == UNION {[1..k -> S] : k \in 0..n}

\* The synchronous caller has one call in progress at a time.
Quiet == tm = Idle /\ orb = Idle /\ roi = Idle /\ asp = Idle /\ kp = Idle

\* One call of findImageInImage on a haystack and a needle cut from it.
FindImageInImage ==
    /\ Quiet
    /\ UNCHANGED <<orb, roi, asp, kp>>
    /\ \E c \in 1..MaxArea, r \in 1..MaxArea :
        /\ c * r <= MaxArea
        /\ \E largeImage \in Mat(c, r), w \in 1..c, h \in 1..r, scale \in Scales :
             \E x0 \in 0..(c - w), y0 \in 0..(r - h) :
                LET smallImage == Crop(largeImage, x0, y0, w, h)
                IN  \E out \in findImageInImage(largeImage, smallImage, scale) :
                        tm' = [op |-> "findImageInImage",
                               largeImage |-> largeImage,
                               smallImage |-> smallImage,
                               scale |-> scale,
                               ret |-> out]

\* The frame of a findImageInImageORB call on entry.  Locals not yet
\* assigned hold an empty value.
Frame(form, largeImage, smallImage, minMatchScore, scale) ==
    [op |-> "findImageInImageORB", form |-> form, pc |-> "entry",
     largeImage |-> largeImage, smallImage |-> smallImage,
     arg |-> minMatchScore, scale |-> scale,
     minMatchScore |-> 0, smallCopy |-> smallImage,
     descriptorsLarge |-> 0, descriptorsSmall |-> 0,
     matches |-> <<>>, goodMatches |-> <<>>,
     boundingRect |-> ZeroRect, needleAt |-> <<>>,
     calls |-> <<>>, rect |-> ZeroRect, what |-> ""]

\* return r;
OrbReturn(f, r) == [f EXCEPT !.pc = "returned", !.rect = r]

\* throw what;
OrbThrow(f, what) == [f EXCEPT !.pc = "thrown", !.what = what]

\* Lines 82-87: entry of the extract-internally form, the scale guard and
\* the clamp of minMatchScore.
CallORB ==
    /\ Quiet
    /\ UNCHANGED <<tm, roi, asp, kp>>
    /\ \E largeImage \in OrbLargeImages, smallImage \in OrbSmallImages,
          minMatchScore \in Scores, scale \in OrbScales :
         LET f == Frame("extract", largeImage, smallImage, minMatchScore, scale)
         IN  orb' = IF ScaleOutOfRange(scale)
                    THEN OrbThrow(f, "invalid_argument")
                    ELSE [f EXCEPT !.pc = "resize",
                                   !.minMatchScore = ClampScore(minMatchScore)]

\* Lines 89-98: the copies, resized unless scale is 1.
OrbResize ==
    /\ orb # Idle
    /\ orb.pc = "resize"
    /\ UNCHANGED <<tm, roi, asp, kp>>
    /\ orb' = IF orb.scale[1] = orb.scale[2]
              THEN [orb EXCEPT !.pc = "extract"]
              ELSE LET lc == ResizedDim(orb.largeImage.cols, orb.scale)
                       lr == ResizedDim(orb.largeImage.rows, orb.scale)
                       sc == ResizedDim(orb.smallImage.cols, orb.scale)
                       sr == ResizedDim(orb.smallImage.rows, orb.scale)
                       g  == [orb EXCEPT !.calls = Append(@, "resize")]
                   IN  IF lc = 0 \/ lr = 0 \/ sc = 0 \/ sr = 0
                       THEN OrbThrow(g, "cv::Exception")
                       ELSE [g EXCEPT !.pc = "extract", !.smallCopy = Size(sc, sr)]

\* Lines 100-104: computeKeypointsAndDescriptors on both copies; the number
\* of descriptors each image yields is OpenCV's.
OrbExtract ==
    /\ orb # Idle
    /\ orb.pc = "extract"
    /\ UNCHANGED <<tm, roi, asp, kp>>
    /\ \E nLarge \in 0..MaxMatches, nSmall \in 0..MaxMatches :
         orb' = [orb EXCEPT !.pc = "checkDescriptors",
                            !.descriptorsLarge = nLarge,
                            !.descriptorsSmall = nSmall,
                            !.calls = Append(@, "detectAndCompute")]

\* Lines 185-190: entry of the precomputed-descriptor form and the clamp of
\* minMatchScore.  This form takes no scale.
CallORBPrecomputed ==
    /\ Quiet
    /\ UNCHANGED <<tm, roi, asp, kp>>
    /\ \E largeImage \in OrbLargeImages, smallImage \in OrbSmallImages,
          minMatchScore \in Scores,
          nLarge \in 0..MaxMatches, nSmall \in 0..MaxMatches :
         LET f == Frame("precomputed", largeImage, smallImage, minMatchScore, <<1, 1>>)
         IN  orb' = [f EXCEPT !.pc = "checkDescriptors",
                              !.minMatchScore = ClampScore(minMatchScore),
                              !.descriptorsLarge = nLarge,
                              !.descriptorsSmall = nSmall]

\* Lines 106-109 and 192-195.
OrbCheckDescriptors ==
    /\ orb # Idle
    /\ orb.pc = "checkDescriptors"
    /\ UNCHANGED <<tm, roi, asp, kp>>
    /\ orb' = IF orb.descriptorsLarge = 0 \/ orb.descriptorsSmall = 0
              THEN OrbReturn(orb, ZeroRect)
              ELSE [orb EXCEPT !.pc = "match"]

\* Lines 120-127 and 197-204: BFMatcher with cross-check pairs each
\* descriptor at most once, so there are at most min(nSmall, nLarge) matches;
\* their distances are OpenCV's.  The descriptors are not read again.
OrbMatch ==
    /\ orb # Idle
    /\ orb.pc = "match"
    /\ UNCHANGED <<tm, roi, asp, kp>>
    /\ \E matches \in SeqsUpTo(Distances,
                               IF orb.descriptorsLarge < orb.descriptorsSmall
                               THEN orb.descriptorsLarge ELSE orb.descriptorsSmall) :
         LET g == [orb EXCEPT !.matches = matches,
                              !.descriptorsLarge = 0, !.descriptorsSmall = 0,
                              !.calls = Append(@, "match")]
         IN  orb' = IF matches = <<>>
                    THEN OrbReturn(g, ZeroRect)
                    ELSE [g EXCEPT !.pc = "filter"]

\* Lines 129-153 and 206-229: the good matches and their count.
OrbFilter ==
    /\ orb # Idle
    /\ orb.pc = "filter"
    /\ UNCHANGED <<tm, roi, asp, kp>>
    /\ LET g == [orb EXCEPT !.goodMatches = GoodMatches(orb.matches, orb.minMatchScore)]
       IN  orb' = IF TooFewGoodMatches(g.goodMatches)
                  THEN OrbReturn(g, ZeroRect)
                  ELSE [g EXCEPT !.pc = "homography"]

\* Lines 155-166 and 231-242: cv::findHomography gives a matrix or an empty
\* Mat.  The matches and the score are not read again.
OrbHomography ==
    /\ orb # Idle
    /\ orb.pc = "homography"
    /\ UNCHANGED <<tm, roi, asp, kp>>
    /\ \E empty \in BOOLEAN :
         LET g == [orb EXCEPT !.matches = <<>>, !.goodMatches = <<>>,
                              !.minMatchScore = 0, !.arg = 0,
                              !.calls = Append(@, "findHomography")]
         IN  orb' = IF empty
                    THEN OrbReturn(g, ZeroRect)
                    ELSE [g EXCEPT !.pc = "project"]

\* Lines 168-178 and 244-254: the bounding rectangle of the projected
\* corners is whatever the homography makes it.  Where the homography is
\* exact for a needle lying at (x0, y0) of the haystack, it is the
\* translation that carries the matched needle image onto its place in the
\* matched haystack image.
OrbProject ==
    /\ orb # Idle
    /\ orb.pc = "project"
    /\ UNCHANGED <<tm, roi, asp, kp>>
    /\ \/ \E x \in -1..1, y \in -1..1, w \in -1..MaxRect, h \in -1..MaxRect :
            orb' = [orb EXCEPT !.pc = "validate",
                               !.boundingRect = Rect(x, y, w, h),
                               !.calls = Append(@, "perspectiveTransform")]
       \/ \E x0 \in 0..(orb.largeImage.cols - orb.smallImage.cols),
             y0 \in 0..(orb.largeImage.rows - orb.smallImage.rows) :
            orb' = [orb EXCEPT !.pc = "validate",
                               !.boundingRect = ExactBoundingRect(orb.smallCopy, orb.scale,
                                                                  x0, y0),
                               !.needleAt = <<x0, y0>>,
                               !.calls = Append(@, "perspectiveTransform")]

\* Lines 179-183 and 256-265.
OrbValidate ==
    /\ orb # Idle
    /\ orb.pc = "validate"
    /\ UNCHANGED <<tm, roi, asp, kp>>
    /\ orb' = OrbReturn(orb,
                  IF orb.form = "extract"
                  THEN ValidateExtract(orb.boundingRect, orb.smallImage)
                  ELSE ValidatePrecomputed(orb.boundingRect, orb.largeImage,
                                           orb.smallImage))

NextORB ==
    \/ CallORB
    \/ CallORBPrecomputed
    \/ OrbResize
    \/ OrbExtract
    \/ OrbCheckDescriptors
    \/ OrbMatch
    \/ OrbFilter
    \/ OrbHomography
    \/ OrbProject
    \/ OrbValidate

SpecORB == Init /\ [][NextORB]_vars

\* Tokens in a direction position: the five directions and an unknown one.
DirectionTokens == {LEFT, RIGHT, TOP, BOTTOM, CENTER, <<"u", "p">>}

\* Tokens in a fraction position: ratios and decimals in (0, 1], above 1,
\* zero and negative, and tokens that are no number.
FractionTokens ==
    { <<"1", "/", "2">>, <<"0", ".", "2", "5">>, <<"1">>, <<"3", "/", "2">>,
      <<"-", "1", "/", "2">>, <<"0">>, <<"a", "b", "c">>, <<"1", "/">>, <<"/", "2">> }

\* Keyphrases: "default", and direction and fraction tokens in turn.
Keyphrases ==
    {<<DEFAULT>>} \cup
    UNION {{t \in [1..k -> DirectionTokens \cup FractionTokens] :
               \A i \in 1..k : t[i] \in (IF i % 2 = 1 THEN DirectionTokens
                                         ELSE FractionTokens)} : k \in 0..MaxTokens}

ImageSizes == {[width |-> 100, height |-> 100], [width |-> 7, height |-> 5],
               [width |-> 0, height |-> 3]}

\* One call of getRoiFromKeyphrase.
GetRoiFromKeyphrase ==
    /\ Quiet
    /\ UNCHANGED <<tm, orb, asp, kp>>
    /\ \E keyphrase \in Keyphrases, imageSize \in ImageSizes :
         roi' = [op |-> "getRoiFromKeyphrase",
                 keyphrase |-> keyphrase,
                 imageSize |-> imageSize,
                 ret |-> getRoiFromKeyphrase(keyphrase, imageSize)]

NextRoi == GetRoiFromKeyphrase

SpecRoi == Init /\ [][NextRoi]_vars

\* Sides of the rectangles and reference images handed to isAspectRatioClose,
\* and tolerances.  No two ratios of these sides differ by exactly a
\* tolerance unless both are dyadic, so the double comparisons of the code
\* agree with the exact ones.
AspectSides == 0..4

ReferenceSides == 1..4

Tolerances == {<<0, 1>>, <<1, 10>>, <<1, 5>>, <<1, 4>>, <<1, 2>>}

\* One call of isAspectRatioClose (lines 657-664).  Both arguments are
\* references to const: the function assigns to neither, so the caller finds
\* them as it passed them.
IsAspectRatioClose ==
    /\ Quiet
    /\ UNCHANGED <<tm, orb, roi, kp>>
    /\ \E x \in {0, 1}, w \in AspectSides, h \in AspectSides,
          c \in ReferenceSides, r \in ReferenceSides, tolerance \in Tolerances :
         LET rect == Rect(x, 0, w, h)
             smallImage == Size(c, r)
         IN  asp' = [op |-> "isAspectRatioClose",
                     rect |-> rect,
                     smallImage |-> smallImage,
                     tolerance |-> tolerance,
                     ret |-> isAspectRatioClose(rect, smallImage, tolerance),
                     rectAfter |-> rect,
                     smallImageAfter |-> smallImage]

NextAspect == IsAspectRatioClose

SpecAspect == Init /\ [][NextAspect]_vars

\* Widths and heights of images handed to computeKeypointsAndDescriptors:
\* small ones, ones around the square root of 2^31 and ones whose product
\* reaches 2^32.
KeypointDims == {1, 100, 316, 317, 1000, 20000, 46340, 46341, 50000, 65535, 65536}

\* One call of computeKeypointsAndDescriptors (lines 268-276): the budget,
\* ORB::create and detectAndCompute, which fills the outputs with what
\* OpenCV finds.  The signed overflow of line 270 is undefined: a build
\* either wraps the product or, with overflow trapping, aborts the process.
ComputeKeypointsAndDescriptors ==
    /\ Quiet
    /\ UNCHANGED <<tm, orb, roi, asp>>
    /\ \E cols \in KeypointDims, rows \in KeypointDims :
         LET image == Size(cols, rows)
         IN  \/ /\ Overflows(cols, rows)
                /\ kp' = [op |-> "computeKeypointsAndDescriptors",
                          image |-> image,
                          outcome |-> "aborted",
                          imageArea |-> 0, limit |-> 0, descriptors |-> 0,
                          calls |-> <<>>]
             \/ \E descriptors \in {0, 1} :
                   kp' = [op |-> "computeKeypointsAndDescriptors",
                          image |-> image,
                          outcome |-> "returned",
                          imageArea |-> ImageArea(image),
                          limit |-> KeypointLimit(ImageArea(image)),
                          descriptors |-> descriptors,
                          calls |-> <<"ORB::create", "detectAndCompute">>]

NextKeypoints == ComputeKeypointsAndDescriptors

SpecKeypoints == Init /\ [][NextKeypoints]_vars

NextTemplate == FindImageInImage

SpecTemplate == Init /\ [][NextTemplate]_vars

Next ==
    \/ NextTemplate
    \/ NextORB
    \/ NextRoi
    \/ NextAspect
    \/ NextKeypoints

Spec == Init /\ [][Next]_vars

\* ================================================================= claims
TemplateCalled == tm # Idle

RoiCalled == roi # Idle

OrbCalled == orb # Idle

InScale(s) == 0 < s[1] /\ s[1] <= s[2]

\* C1: every rectangle findImageInImage returns lies inside the original
\* haystack: x >= 0, y >= 0, x + width <= cols and y + height <= rows, for
\* every scale in (0, 1] and every best offset.
C1_RectInsideHaystack ==
    (TemplateCalled /\ InScale(tm.scale) /\ tm.ret.kind = "rect") =>
        LET r == tm.ret.rect
        IN  /\ r.x >= 0
            /\ r.y >= 0
            /\ r.x + r.width <= tm.largeImage.cols
            /\ r.y + r.height <= tm.largeImage.rows

\* The needle is found unchanged in the haystack at (x, y).
CopyAt(large, small, x, y) ==
    /\ x + small.cols <= large.cols
    /\ y + small.rows <= large.rows
    /\ Crop(large, x, y, small.cols, small.rows) = small

IsConstant(img) == \A i, j \in DOMAIN img.pix : img.pix[i] = img.pix[j]

\* (x1, y1) comes before (x2, y2) in row-major scan order.
ScannedBefore(x1, y1, x2, y2) == y1 < y2 \/ (y1 = y2 /\ x1 < x2)

AtScaleOne == TemplateCalled /\ tm.scale[1] = tm.scale[2] /\ tm.scale[1] > 0

\* The haystack holds exactly one copy of the needle, at (x0, y0).
OnlyCopyAt(large, small, x0, y0) ==
    /\ CopyAt(large, small, x0, y0)
    /\ \A x \in 0..(large.cols - 1), y \in 0..(large.rows - 1) :
          CopyAt(large, small, x, y) => (x = x0 /\ y = y0)

\* C2 as stated, read in its favour (the copy at (x0, y0) is the only one):
\* at scale 1 the call on a haystack holding an exact copy of the needle at
\* (x0, y0) returns {x0, y0, needle.cols, needle.rows}.
C2_ExactCopyReturned ==
    AtScaleOne =>
        \A x0 \in 0..(tm.largeImage.cols - 1), y0 \in 0..(tm.largeImage.rows - 1) :
            OnlyCopyAt(tm.largeImage, tm.smallImage, x0, y0) =>
                tm.ret = Returned(Rect(x0, y0, tm.smallImage.cols, tm.smallImage.rows),
                                  tm.ret.calls)

\* The patch of the haystack at (x, y) is a * needle + b for some a > 0: the
\* needle with its brightness shifted and its contrast stretched, or the
\* needle itself.
AffineImageAt(large, small, x, y) ==
    /\ x + small.cols <= large.cols
    /\ y + small.rows <= large.rows
    /\ LET P == Crop(large, x, y, small.cols, small.rows).pix
           T == small.pix
       IN  \E i, j \in DOMAIN T :
              /\ (P[i] - P[j]) * (T[i] - T[j]) > 0
              /\ \A k \in DOMAIN T :
                    (P[k] - P[j]) * (T[i] - T[j]) = (P[i] - P[j]) * (T[k] - T[j])

\* C2 amended: at scale 1 no resize happens and the call returns a rectangle
\* of the needle's size.  For a needle that is not constant it lies at the
\* first offset, in row-major scan order, whose patch is a * needle + b with
\* a > 0 (an exact copy is such a patch): it is {x0, y0, ..} when no such
\* patch is scanned before the copy at (x0, y0).  For a constant needle every
\* offset scores the same and the rectangle is at (0, 0).
C2_FirstCopyReturned ==
    AtScaleOne =>
        /\ tm.ret.kind = "rect"
        /\ tm.ret.calls = <<"matchTemplate", "minMaxLoc">>
        /\ tm.ret.rect.width = tm.smallImage.cols
        /\ tm.ret.rect.height = tm.smallImage.rows
        /\ IsConstant(tm.smallImage) => (tm.ret.rect.x = 0 /\ tm.ret.rect.y = 0)
        /\ ~IsConstant(tm.smallImage) =>
             \A x0 \in 0..(tm.largeImage.cols - 1), y0 \in 0..(tm.largeImage.rows - 1) :
                (/\ AffineImageAt(tm.largeImage, tm.smallImage, x0, y0)
                 /\ \A x \in 0..(tm.largeImage.cols - 1), y \in 0..(tm.largeImage.rows - 1) :
                       AffineImageAt(tm.largeImage, tm.smallImage, x, y) =>
                           ~ScannedBefore(x, y, x0, y0))
                => (tm.ret.rect.x = x0 /\ tm.ret.rect.y = y0)

\* A needle that is not constant, returned at its exact copy away from the
\* origin, with a stretched or shifted version of it further on.
C2_Witness ==
    /\ AtScaleOne
    /\ ~IsConstant(tm.smallImage)
    /\ tm.ret.kind = "rect"
    /\ tm.ret.rect.x > 0
    /\ CopyAt(tm.largeImage, tm.smallImage, tm.ret.rect.x, tm.ret.rect.y)
    /\ \E x \in 0..(tm.largeImage.cols - 1), y \in 0..(tm.largeImage.rows - 1) :
          /\ AffineImageAt(tm.largeImage, tm.smallImage, x, y)
          /\ ~CopyAt(tm.largeImage, tm.smallImage, x, y)
          /\ ScannedBefore(tm.ret.rect.x, tm.ret.rect.y, x, y)

\* C3: a scale <= 0 or > 1 makes findImageInImage and the
\* extract-internally findImageInImageORB throw invalid_argument, whatever
\* the other arguments, before any OpenCV call is made.
C3_ScaleOutOfRangeThrows ==
    /\ (TemplateCalled /\ ~InScale(tm.scale)) =>
           tm.ret = Thrown("invalid_argument", <<>>)
    /\ (OrbCalled /\ orb.form = "extract" /\ ~InScale(orb.scale)) =>
           /\ orb.pc = "thrown"
           /\ orb.what = "invalid_argument"
           /\ orb.calls = <<>>
           /\ orb.rect = ZeroRect /\ orb.matches = <<>>

\* The feature matcher thrown out for a scale above 1, with a minMatchScore
\* that is out of range too.
C3_Witness ==
    /\ OrbCalled
    /\ orb.form = "extract"
    /\ orb.scale = <<2, 1>>
    /\ orb.arg = 300
    /\ orb.pc = "thrown"
    /\ orb.what = "invalid_argument"

\* The good matches of a frame, from its match list and its minMatchScore
\* argument clamped into [0, 256].
GoodCount(f) ==
    LET score == IF f.arg < 0 THEN 0 ELSE IF f.arg > 256 THEN 256 ELSE f.arg
        least(i) == \A j \in 1..Len(f.matches) : f.matches[i] <= f.matches[j]
    IN  Cardinality({i \in 1..Len(f.matches) :
                        \E k \in 1..Len(f.matches) :
                            least(k) /\ f.matches[i] <= f.matches[k] + score})

Last(q) == q[Len(q)]

ReturnedZeroRect(f) == f.pc = "returned" /\ f.rect = ZeroRect

\* C4: in both forms, fewer than 4 good matches give the zero Rect with no
\* exception and no homography estimation; so do empty descriptors and an
\* empty match list, which are checked first.
C4_FewGoodMatchesZeroRect ==
    OrbCalled =>
        \* past the descriptor check, before any matching
        /\ (/\ orb.pc \in {"match", "returned"}
            /\ orb.calls = SelectSeq(orb.calls, LAMBDA c : c # "match")
            /\ (orb.descriptorsLarge = 0 \/ orb.descriptorsSmall = 0))
           => ReturnedZeroRect(orb)
        \* past the matcher, with no match
        /\ (orb.calls # <<>> /\ Last(orb.calls) = "match" /\ orb.matches = <<>>)
           => ReturnedZeroRect(orb)
        \* past the filter, with fewer than 4 good matches
        /\ (orb.matches # <<>> /\ orb.pc # "filter" /\ GoodCount(orb) < 4)
           => (ReturnedZeroRect(orb) /\ Last(orb.calls) = "match")

\* Four matches of which only some are good: the zero Rect.
C4_Witness ==
    /\ OrbCalled
    /\ orb.pc = "returned"
    /\ Len(orb.matches) = 4
    /\ GoodCount(orb) \in 1..3
    /\ orb.rect = ZeroRect

HALF == <<"1", "/", "2">>

QUARTER == <<"0", ".", "2", "5">>

ONE == <<"1">>

GrammarFractions == {HALF, QUARTER, ONE}

FractionOf(token) ==
    CASE token = HALF -> <<1, 2>>
      [] token = QUARTER -> <<1, 4>>
      [] token = ONE -> <<1, 1>>

\* trunc(dim * f) for a fraction f >= 0.
Part(dim, f) == (dim * f[1]) \div f[2]

FullRect(size) == Rect(0, 0, size.width, size.height)

\* The reference semantics of one token on the full image.
Reference(direction, f, size) ==
    LET W == size.width
        H == size.height
    IN  CASE direction = LEFT -> Rect(0, 0, Part(W, f), H)
          [] direction = RIGHT -> Rect(W - Part(W, f), 0, Part(W, f), H)
          [] direction = TOP -> Rect(0, 0, W, Part(H, f))
          [] direction = BOTTOM -> Rect(0, H - Part(H, f), W, Part(H, f))
          [] direction = CENTER -> Rect((W - Part(W, f)) \div 2, (H - Part(H, f)) \div 2,
                                        Part(W, f), Part(H, f))

Square100 == [width |-> 100, height |-> 100]

RoiReturns(r) == roi.ret = Returned(r, <<>>)

\* C6: getRoiFromKeyphrase agrees with the reference semantics: "default" is
\* the full image; one token `left f`, `right f`, `center f` gives the
\* reference rect; a horizontal token followed by a vertical one keeps the
\* horizontal fields of the first and takes the vertical fields of the
\* second; "a/b" is a divided by b; and the four examples on {100,100}.
C6_ReferenceSemantics ==
    RoiCalled =>
        LET k == roi.keyphrase
            size == roi.imageSize
        IN  /\ k = <<DEFAULT>> => RoiReturns(FullRect(size))
            /\ (Len(k) = 2 /\ k[1] \in {LEFT, RIGHT, CENTER} /\ k[2] \in GrammarFractions)
               => RoiReturns(Reference(k[1], FractionOf(k[2]), size))
            /\ (/\ Len(k) = 4
                /\ k[1] \in {LEFT, RIGHT} /\ k[2] \in GrammarFractions
                /\ k[3] \in {TOP, BOTTOM} /\ k[4] \in GrammarFractions)
               => LET h == Reference(k[1], FractionOf(k[2]), size)
                      v == Reference(k[3], FractionOf(k[4]), size)
                  IN  RoiReturns(Rect(h.x, v.y, h.width, v.height))
            /\ (size = Square100 /\ k = <<LEFT, HALF>>) => RoiReturns(Rect(0, 0, 50, 100))
            /\ (size = Square100 /\ k = <<RIGHT, HALF>>) => RoiReturns(Rect(50, 0, 50, 100))
            /\ (size = Square100 /\ k = <<CENTER, HALF>>) => RoiReturns(Rect(25, 25, 50, 50))
            /\ (size = Square100 /\ k = <<LEFT, HALF, BOTTOM, HALF>>)
               => RoiReturns(Rect(0, 50, 50, 50))

\* "left 1/2 bottom 1/2" on {100,100} gives {0,50,50,50}.
C6_Witness ==
    /\ RoiCalled
    /\ roi.keyphrase = <<LEFT, HALF, BOTTOM, HALF>>
    /\ roi.imageSize = Square100
    /\ roi.ret.kind = "rect"
    /\ roi.ret.rect = Rect(0, 50, 50, 50)

TwoTokens ==
    /\ RoiCalled
    /\ Len(roi.keyphrase) = 4
    /\ roi.keyphrase[1] \in {LEFT, RIGHT, TOP, BOTTOM, CENTER}
    /\ roi.keyphrase[2] \in GrammarFractions
    /\ roi.keyphrase[4] \in GrammarFractions

\* C7 as stated: a later `left f` (`top f`) multiplies the width (height) the
\* earlier tokens left by f, with x (y) unchanged.
C7_SameAxisComposes ==
    TwoTokens =>
        LET k == roi.keyphrase
            first == Reference(k[1], FractionOf(k[2]), roi.imageSize)
            g == FractionOf(k[4])
        IN  /\ k[3] = LEFT =>
                RoiReturns(Rect(first.x, first.y, Part(first.width, g), first.height))
            /\ k[3] = TOP =>
                RoiReturns(Rect(first.x, first.y, first.width, Part(first.height, g)))

Min(a, b) == IF a < b THEN a ELSE b

\* C7 amended: the tokens are applied in sequence to the current rect, but a
\* token sets the fields of its own axis from the original image size and
\* keeps the other fields of the current rect: `left g` sets the width to
\* trunc(W * g) and `top g` the height to trunc(H * g), whatever width or
\* height the earlier tokens left, with x and y unchanged; `right g`,
\* `bottom g` and `center g` take both the size and the anchor of their axis
\* from the image size; the final clamp then caps the width at W - x and the
\* height at H - y.
C7_SameAxisOverrides ==
    TwoTokens =>
        LET k == roi.keyphrase
            W == roi.imageSize.width
            H == roi.imageSize.height
            first == Reference(k[1], FractionOf(k[2]), roi.imageSize)
            g == FractionOf(k[4])
        IN  /\ k[3] = LEFT =>
                RoiReturns(Rect(first.x, first.y,
                                Min(Part(W, g), W - first.x), first.height))
            /\ k[3] = TOP =>
                RoiReturns(Rect(first.x, first.y,
                                first.width, Min(Part(H, g), H - first.y)))
            /\ k[3] = RIGHT =>
                RoiReturns(Rect(W - Part(W, g), first.y, Part(W, g), first.height))
            /\ k[3] = BOTTOM =>
                RoiReturns(Rect(first.x, H - Part(H, g), first.width, Part(H, g)))
            /\ k[3] = CENTER =>
                RoiReturns(Reference(CENTER, g, roi.imageSize))

\* "left 1/2 left 1/2" on {100,100}: the width is 50, not 25.
C7_Witness ==
    /\ RoiCalled
    /\ roi.keyphrase = <<LEFT, HALF, LEFT, HALF>>
    /\ roi.imageSize = Square100
    /\ roi.ret.kind = "rect"
    /\ roi.ret.rect.width = 50

\* The fraction tokens that parse to a finite number.
NumericFractions ==
    GrammarFractions \cup {<<"3", "/", "2">>, <<"-", "1", "/", "2">>, <<"0">>}

NumericFractionsOnly ==
    \A i \in 1..Len(roi.keyphrase) : i % 2 = 0 => roi.keyphrase[i] \in NumericFractions

\* C8: a keyphrase other than "default" with an unknown token in a
\* direction position (first, middle or trailing) gives the full-image
\* rect.  Stated for the keyphrases whose fraction tokens are all numbers.
C8_UnknownDirectionFullRect ==
    (/\ RoiCalled
     /\ roi.keyphrase # <<DEFAULT>>
     /\ NumericFractionsOnly
     /\ \E i \in 1..Len(roi.keyphrase) :
           i % 2 = 1 /\ roi.keyphrase[i] \notin {LEFT, RIGHT, TOP, BOTTOM, CENTER})
    => RoiReturns(FullRect(roi.imageSize))

\* C9: getRoiFromKeyphrase returns a Rect for every keyphrase and never
\* throws.
C9_NeverThrows == RoiCalled => roi.ret.kind = "rect"

\* C10: for every keyphrase whose fractions are numbers, in or out of
\* (0, 1], the returned rect stays within the image: x >= 0, y >= 0,
\* 0 <= width <= W - x and 0 <= height <= H - y.
C10_RoiInsideImage ==
    (RoiCalled /\ roi.ret.kind = "rect" /\ NumericFractionsOnly)
    => LET r == roi.ret.rect
       IN  /\ r.x >= 0
           /\ r.y >= 0
           /\ 0 <= r.width /\ r.width <= roi.imageSize.width - r.x
           /\ 0 <= r.height /\ r.height <= roi.imageSize.height - r.y

AspectCalled == asp # Idle

\* |a / b - c / r| <= tol for positive b and r.
RatiosDifferAtMost(a, b, c, r, tol) ==
    Abs(a * r - c * b) * tol[2] <= tol[1] * b * r

SwappedRect(rect) == Rect(rect.x, rect.y, rect.height, rect.width)

\* C11: for a rectangle of positive width and height, isAspectRatioClose
\* answers the same for the rectangle and for the rectangle with width and
\* height exchanged; it answers true exactly when width / height or
\* height / width is within the tolerance of cols / rows of the reference
\* image; and it leaves both arguments as they were.
C11_SwapSymmetric ==
    (AspectCalled /\ asp.rect.width > 0 /\ asp.rect.height > 0) =>
        /\ asp.ret = isAspectRatioClose(SwappedRect(asp.rect), asp.smallImage,
                                        asp.tolerance)
        /\ asp.ret = (\/ RatiosDifferAtMost(asp.rect.width, asp.rect.height,
                                            asp.smallImage.cols, asp.smallImage.rows,
                                            asp.tolerance)
                      \/ RatiosDifferAtMost(asp.rect.height, asp.rect.width,
                                            asp.smallImage.cols, asp.smallImage.rows,
                                            asp.tolerance))
        /\ asp.rectAfter = asp.rect
        /\ asp.smallImageAfter = asp.smallImage

\* A portrait rectangle accepted against a landscape reference: only the
\* rotated ratio is within the tolerance.
C11_Witness ==
    /\ AspectCalled
    /\ asp.rect.width > 0
    /\ asp.rect.height > asp.rect.width
    /\ asp.ret
    /\ ~RatiosDifferAtMost(asp.rect.width, asp.rect.height,
                           asp.smallImage.cols, asp.smallImage.rows, asp.tolerance)

KeypointsCalled == kp # Idle

\* trunc(0.005 * cols * rows) = floor(cols * rows / 200), computed without
\* forming the product.
ExactBudget(cols, rows) ==
    cols * (rows \div 200) + (cols * (rows % 200)) \div 200

\* cols * rows as <<high, low>> with cols * rows = 256 * high + low.
ExactArea(cols, rows) ==
    LET part == cols * (rows % 256)
    IN  <<cols * (rows \div 256) + part \div 256, part % 256>>

AreaAtMost(a, b) == a[1] < b[1] \/ (a[1] = b[1] /\ a[2] <= b[2])

\* C12: for every image size, the keypoint budget of a call that returns is
\* max(500, trunc(0.005 * cols * rows)), it is at least 500, and an image of
\* no larger area never gets a larger budget, also where cols * rows
\* exceeds 2^31 - 1.
C12_KeypointBudget ==
    (KeypointsCalled /\ kp.outcome = "returned") =>
        /\ kp.limit >= 500
        /\ kp.limit = (IF ExactBudget(kp.image.cols, kp.image.rows) > 500
                       THEN ExactBudget(kp.image.cols, kp.image.rows)
                       ELSE 500)
        /\ \A cols \in KeypointDims, rows \in KeypointDims :
              AreaAtMost(ExactArea(cols, rows),
                         ExactArea(kp.image.cols, kp.image.rows)) =>
                  KeypointLimit(ImageArea(Size(cols, rows))) <= kp.limit

\* |a - b| <= 1 / scale + 1: a and b agree up to the rounding of a
\* coordinate on the image resized by scale and of its conversion back.
AgreeUpToRounding(a, b, scale) == Abs(a - b) * scale[1] <= scale[2] + scale[1]

\* C13: for every scale in (0, 1], a rectangle the extract-internally form
\* returns as found under an exact homography, for a needle lying at
\* (x0, y0) of the haystack, is {x0, y0, needle.cols, needle.rows} up to
\* rounding: it is in the coordinates of the original haystack.
C13_RectInHaystackCoordinates ==
    (/\ OrbCalled
     /\ orb.form = "extract"
     /\ orb.pc = "returned"
     /\ orb.needleAt # <<>>
     /\ orb.rect # ZeroRect) =>
        /\ AgreeUpToRounding(orb.rect.x, orb.needleAt[1], orb.scale)
        /\ AgreeUpToRounding(orb.rect.y, orb.needleAt[2], orb.scale)
        /\ AgreeUpToRounding(orb.rect.width, orb.smallImage.cols, orb.scale)
        /\ AgreeUpToRounding(orb.rect.height, orb.smallImage.rows, orb.scale)

\* The call has filtered a non-empty match list: it is about to estimate the
\* homography or has returned for want of good matches.
Filtered ==
    /\ OrbCalled
    /\ orb.matches # <<>>
    /\ orb.pc \in {"homography", "returned"}

Range(q) == {q[i] : i \in 1..Len(q)}

\* The least element of a non-empty sequence of distances.
Least(q) == CHOOSE d \in Range(q) : \A e \in Range(q) : d <= e

\* The matches at the least distance, in order.
Ties(q) == SelectSeq(q, LAMBDA d : d = Least(q))

\* C14: in both forms, for every non-empty match list and every integer
\* minMatchScore, the good matches are not empty and hold every match at the
\* least distance; a larger minMatchScore never gives fewer good matches; a
\* minMatchScore <= 0 gives exactly the matches at the least distance; a
\* minMatchScore >= 256 gives what 256 gives, the whole match list.
C14_GoodMatchesBand ==
    Filtered =>
        /\ orb.goodMatches # <<>>
        /\ SelectSeq(orb.goodMatches, LAMBDA d : d = Least(orb.matches))
               = Ties(orb.matches)
        /\ \A score \in Scores :
              score <= orb.arg =>
                  LET fewer == GoodMatches(orb.matches, ClampScore(score))
                  IN  /\ Range(fewer) \subseteq Range(orb.goodMatches)
                      /\ Len(fewer) <= Len(orb.goodMatches)
        /\ orb.arg <= 0 => orb.goodMatches = Ties(orb.matches)
        /\ orb.arg >= 256 =>
              /\ orb.goodMatches = GoodMatches(orb.matches, ClampScore(256))
              /\ orb.goodMatches = orb.matches

\* A negative score on a list with two matches at the least distance and
\* farther ones: the good matches are the two.
C14_Witness ==
    /\ Filtered
    /\ orb.arg < 0
    /\ Len(orb.goodMatches) = 2
    /\ Len(orb.matches) > 2
    /\ orb.goodMatches = Ties(orb.matches)

====
